---- MODULE Spec2Model ----
(***************************************************************************)
(* State-machine model of easyeditor/models/memit/memit_main.py:           *)
(* execute_memit (request normalisation, weight snapshot, target-vector    *)
(* stage with its disk cache, residual, per-layer closed-form solve with   *)
(* the process-wide statistics cache cache_kvs, restoration),              *)
(* apply_memit_to_model, upd_matrix_match_shape and get_context_templates. *)
(*                                                                         *)
(* A tensor is a record [shape |-> <<rows, cols>>, val |-> Int]: val is    *)
(* the content of the matrix reduced to one number (hidden and key         *)
(* dimension collapsed), shape is its torch shape.  A matrix with one      *)
(* column per request (zs, targets, layer_ks) is the sequence of its       *)
(* columns.  Strings are sequences of one-character strings.               *)
(***************************************************************************)
EXTENDS Integers, Sequences, FiniteSets, TLC

VARIABLES
    pc,                       \* position inside execute_memit / outcome of the last call
    error,                    \* exception that ended the last call ("none" if none)
    model_w,                  \* the host model's parameters: layer -> tensor (live weights)
    cache_kvs,                \* global cache_kvs: <<weight_name, role>> -> tensor
    CONTEXT_TEMPLATES_CACHE,  \* global CONTEXT_TEMPLATES_CACHE ("None" or the templates)
    disk,                     \* target-vector cache files: case_id -> file state
    requests,                 \* local deep copy of the request batch
    layers,                   \* hparams.layers
    cache_template,           \* TRUE iff a cache path template was supplied
    idx,                      \* loop index of the request loops (1-based)
    weights,                  \* keys of the local dict `weights` (parameter references)
    weights_copy,             \* local dict weights_copy: weight_name -> tensor
    context_templates,        \* local context_templates
    z_list,                   \* local z_list
    prob_list,                \* local prob_list
    targets,                  \* local targets (columns)
    i,                        \* position in hparams.layers (0-based, as enumerate)
    deltas,                   \* local dict deltas: weight_name -> tensor
    ret,                      \* what apply_memit_to_model returned, with its flags
    hist                      \* observation record of the run (not program state)

vars == <<pc, error, model_w, cache_kvs, CONTEXT_TEMPLATES_CACHE, disk, requests,
          layers, cache_template, idx, weights, weights_copy, context_templates,
          z_list, prob_list, targets, i, deltas, ret, hist>>

-----------------------------------------------------------------------------
(* Bounds *)

MaxCalls == 2
MaxLayers == 2

-----------------------------------------------------------------------------
(* Strings *)

Placeholder == <<"{", "}">>
Space == " "

\* s[p..] starts with sub
StartsWithAt(s, sub, p) ==
    /\ p + Len(sub) - 1 <= Len(s)
    /\ \A k \in 1..Len(sub) : s[p + k - 1] = sub[k]

\* python: sub in s
Contains(s, sub) == \E p \in 1..(Len(s) + 1) : StartsWithAt(s, sub, p)

RECURSIVE ReplaceFrom(_, _, _, _)
\* python: s.replace(old, new), scanning from position p (old non-empty):
\* every non-overlapping occurrence, left to right
ReplaceFrom(s, old, new, p) ==
    IF p > Len(s) THEN <<>>
    ELSE IF StartsWithAt(s, old, p)
         THEN new \o ReplaceFrom(s, old, new, p + Len(old))
         ELSE <<s[p]>> \o ReplaceFrom(s, old, new, p + 1)

StrReplace(s, old, new) == ReplaceFrom(s, old, new, 1)

RECURSIVE CountFrom(_, _, _)
\* number of non-overlapping occurrences of sub in s[p..]
CountFrom(s, sub, p) ==
    IF p > Len(s) THEN 0
    ELSE IF StartsWithAt(s, sub, p) THEN 1 + CountFrom(s, sub, p + Len(sub))
         ELSE CountFrom(s, sub, p + 1)

\* number of '{}' replacement fields of a prompt
NumPlaceholders(s) == CountFrom(s, Placeholder, 1)

-----------------------------------------------------------------------------
(* Tensors *)

Tensor(shape, val) == [shape |-> shape, val |-> val]

\* matrix.T
Transpose(m) == Tensor(<<m.shape[2], m.shape[1]>>, m.val)

\* a + b
TAdd(a, b) == Tensor(a.shape, a.val + b.val)

\* c * a for a number c
TScale(c, a) == Tensor(a.shape, c * a.val)

\* a / n for a number n
TDiv(a, n) == Tensor(a.shape, a.val \div n)

RECURSIVE Dot(_, _)
\* a @ b.T for two matrices given by their columns, a and b with the same
\* number of columns: the sum over the columns of the outer products
Dot(a, b) == IF a = <<>> THEN 0 ELSE Head(a) * Head(b) + Dot(Tail(a), Tail(b))

RECURSIVE repeat_interleave(_, _)
\* torch: t.repeat_interleave(n, dim=1), each column repeated n times in place
repeat_interleave(t, n) ==
    IF t = <<>> THEN <<>>
    ELSE [k \in 1..n |-> Head(t)] \o repeat_interleave(Tail(t), n)

\* torch.linalg.solve(right, resid, left=False): X with X @ right = resid
solve(right, resid) == Tensor(resid.shape, resid.val \div right.val)

RECURSIVE SumSeq(_)
SumSeq(s) == IF s = <<>> THEN 0 ELSE Head(s) + SumSeq(Tail(s))

Min(a, b) == IF a < b THEN a ELSE b

-----------------------------------------------------------------------------
(* The host model and the hyperparameters *)

\* hidden dimension (rows of a target vector) and key dimension (rows of a key)
Dims == [hidden |-> 2, key |-> 3]

\* layers of the host model that a rewrite_module_tmp can name
Layers == {1, 2, 3}

\* native shape of the parameter rewrite_module_tmp.format(layer) + ".weight":
\* layer 1 stores (hidden, key), layer 2 the transposed representation,
\* layer 3 is a module of another shape (misconfigured template)
ParamShape(layer) ==
    CASE layer = 1 -> <<Dims.hidden, Dims.key>>
      [] layer = 2 -> <<Dims.key, Dims.hidden>>
      [] OTHER     -> <<Dims.hidden + Dims.key, Dims.key>>

\* the model as loaded
LoadedModel == [l \in Layers |-> Tensor(ParamShape(l), l)]

\* f"{hparams.rewrite_module_tmp.format(layer)}.weight"
WeightName(layer) == layer

hparams == [mom2_update_weight |-> 1]

\* number of context variants per request for which compute_ks yields a key column
KeyVariants == 2

\* generate_fast(model, tok, prompts, ...): the set of context templates, text
\* sampled from the model it is given; an edited model gives other text than
\* the loaded one
generate_fast(w) ==
    IF w = LoadedModel THEN "text of the loaded model" ELSE "text of an edited model"

-----------------------------------------------------------------------------
(* Collaborators of execute_memit *)

\* compute_z(model, tok, request, hparams, z_layer, context_templates):
\* (target vector, prob) of one request under the model's current weights
compute_z(w, request, z_layer) ==
    [cur_z |-> 10 * request.case_id + z_layer + (w[z_layer].val % 2),
     prob  |-> request.case_id]

\* get_module_input_output_at_words(..., track='out').T : the model's actual
\* output at z_layer, one column per request
get_module_input_output_at_words(w, reqs, z_layer) ==
    [q \in 1..Len(reqs) |-> (w[z_layer].val + reqs[q].case_id) % 2]

\* what the forward pass up to the input of `layer` depends on
Below(w, layer) == SumSeq([l \in 1..(layer - 1) |-> w[l].val])

\* compute_ks(model, tok, requests, hparams, layer, context_templates).T :
\* KeyVariants key columns per request, under the model's current weights
compute_ks(w, reqs, layer) ==
    [c \in 1..(Len(reqs) * KeyVariants) |->
        1 + ((Below(w, layer) + reqs[((c - 1) \div KeyVariants) + 1].case_id
                + ((c - 1) % KeyVariants)) % 2)]

\* get_cov(...): the covariance prior of a layer
get_cov(layer) == Tensor(<<Dims.key, Dims.key>>, 1)

-----------------------------------------------------------------------------
(* cache_kvs *)

get_cache(kvs, name) == kvs[name]

\* an upd_cache that stores the new term in place of the running sum
upd_cache_overwrite(kvs, name, w) ==
    IF name \in DOMAIN kvs THEN [kvs EXCEPT ![name] = w] ELSE kvs @@ (name :> w)

upd_cache(kvs, name, w) ==
    IF name \in DOMAIN kvs
    THEN [kvs EXCEPT ![name] = TAdd(kvs[name], w)]
    ELSE kvs @@ (name :> w)

-----------------------------------------------------------------------------
(* upd_matrix_match_shape: [ok, matrix] *)

\* a reconciler that accepts the transposed shape and forgets to transpose
upd_matrix_match_shape_untransposed(matrix, shape) ==
    [ok |-> matrix.shape = shape \/ Transpose(matrix).shape = shape, matrix |-> matrix]

upd_matrix_match_shape(matrix, shape) ==
    IF matrix.shape = shape THEN [ok |-> TRUE, matrix |-> matrix]
    ELSE IF Transpose(matrix).shape = shape
         THEN [ok |-> TRUE, matrix |-> Transpose(matrix)]
         ELSE [ok |-> FALSE, matrix |-> matrix]

-----------------------------------------------------------------------------
(* Inputs *)

Request(prompt, subject, target_new, case_id) ==
    [prompt |-> prompt, subject |-> subject, target_new |-> target_new, case_id |-> case_id]

CaseIds == {1, 2}

\* "{}x" with target " t": already normalised
ReqTemplated == Request(<<"{", "}", "x">>, <<"s">>, <<" ", "t">>, 1)
\* "sx" with target "t": literal subject, target without the leading space
ReqLiteral == Request(<<"s", "x">>, <<"s">>, <<"t">>, 2)
\* "sxs": the subject occurs twice in a non-templated prompt
ReqTwice == Request(<<"s", "x", "s">>, <<"s">>, <<" ", "t">>, 1)
\* "xx": the subject does not occur in a non-templated prompt
ReqAbsent == Request(<<"x", "x">>, <<"s">>, <<" ", "t">>, 2)

\* request batches a caller passes
Batches ==
    { <<ReqTemplated>>, <<ReqLiteral, ReqTemplated>>,
      <<ReqTwice>>, <<ReqTemplated, ReqAbsent>>, <<ReqAbsent, ReqLiteral>> }

\* values of hparams.layers: non-empty lists of layers, repetitions allowed
LayerLists == UNION { [1..n -> Layers] : n \in 1..MaxLayers }

\* states of a target-vector cache file
FileMissing == [kind |-> "missing", v_star |-> 0]
FileCorrupt == [kind |-> "corrupt", v_star |-> 0]
FileNoKey   == [kind |-> "nokey", v_star |-> 0]
FileOk(v)   == [kind |-> "ok", v_star |-> v]

\* the cache directory when the process starts: files left by earlier runs,
\* some of them damaged
InitDisks ==
    { (1 :> FileMissing) @@ (2 :> FileCorrupt),
      (1 :> FileNoKey) @@ (2 :> FileOk(7)) }

NoTensors == [n \in {} |-> Tensor(<<0, 0>>, 0)]

NoCall == [requests |-> <<>>, layers |-> <<>>, cache_template |-> FALSE,
           pre_w |-> LoadedModel, pre_disk |-> [c \in CaseIds |-> FileMissing],
           pre_ctc |-> "None", pre_kvs |-> NoTensors, outcome |-> "none",
           deltas |-> NoTensors,
           steps |-> <<>>]

-----------------------------------------------------------------------------
(* Initial state: the module as imported, the model as loaded *)

\* nothing returned by apply_memit_to_model
NoReturn == [called |-> FALSE]

Init ==
    /\ pc = "idle"
    /\ error = "none"
    /\ model_w = LoadedModel
    /\ cache_kvs = NoTensors
    /\ CONTEXT_TEMPLATES_CACHE = "None"
    /\ disk \in InitDisks
    /\ requests = <<>>
    /\ layers = <<>>
    /\ cache_template = FALSE
    /\ idx = 0
    /\ weights = {}
    /\ weights_copy = NoTensors
    /\ context_templates = "None"
    /\ z_list = <<>>
    /\ prob_list = <<>>
    /\ targets = <<>>
    /\ i = 0
    /\ deltas = NoTensors
    /\ ret = NoReturn
    /\ hist = [ncalls |-> 0, arg_requests |-> <<>>, pre_w |-> LoadedModel,
               pre_disk |-> disk, pre_ctc |-> "None", pre_kvs |-> NoTensors,
               touched |-> FALSE,
               gen_calls |-> 0, z_fresh |-> <<>>, z_file |-> <<>>,
               resid0 |-> <<>>, steps |-> <<>>,
               contrib |-> [n \in {} |-> <<>>], prev |-> NoCall]

Finished == pc \in {"idle", "returned", "raised", "applied"}

-----------------------------------------------------------------------------
(* execute_memit, lines 95-114: normalisation of the requests *)

\* the loop body without the assertion of lines 105-106
normalize_request_unchecked(request) ==
    [error |-> "none",
     request |-> IF Contains(request.prompt, Placeholder) THEN request
                 ELSE [request EXCEPT
                          !.prompt = StrReplace(@, request.subject, Placeholder)]]

\* body of the loop of lines 99-108 for one request: the request as rewritten,
\* or the exception raised
normalize_request(request) ==
    IF Len(request.target_new) = 0
    THEN [error |-> "IndexError", request |-> request]
    ELSE LET spaced == IF request.target_new[1] # Space
                       THEN [request EXCEPT !.target_new = <<Space>> \o @]
                       ELSE request
         IN  IF ~Contains(spaced.prompt, Placeholder)
             THEN IF ~Contains(spaced.prompt, spaced.subject)
                  THEN [error |-> "AssertionError", request |-> spaced]
                  ELSE [error |-> "none",
                        request |-> [spaced EXCEPT
                            !.prompt = StrReplace(@, spaced.subject, Placeholder)]]
             ELSE [error |-> "none", request |-> spaced]

\* request['prompt'].format(request['subject']) succeeds: one positional
\* argument serves at most one '{}' field
format_ok(request) == NumPlaceholders(request.prompt) <= 1

SampleLimit == 10

\* an exception leaves execute_memit: nothing else runs
Raise(e) ==
    /\ pc' = "raised"
    /\ error' = e

Call(reqs, ls, ct) ==
    /\ Finished
    /\ hist.ncalls < MaxCalls
    /\ pc' = "normalize"
    /\ error' = "none"
    /\ requests' = reqs
    /\ layers' = ls
    /\ cache_template' = ct
    /\ idx' = 1
    /\ weights' = {}
    /\ weights_copy' = NoTensors
    /\ context_templates' = "None"
    /\ z_list' = <<>>
    /\ prob_list' = <<>>
    /\ targets' = <<>>
    /\ i' = 0
    /\ deltas' = NoTensors
    /\ ret' = NoReturn
    /\ hist' = [hist EXCEPT
            !.ncalls = @ + 1,
            !.arg_requests = reqs,
            !.pre_w = model_w,
            !.pre_disk = disk,
            !.pre_ctc = CONTEXT_TEMPLATES_CACHE,
            !.pre_kvs = cache_kvs,
            !.touched = FALSE,
            !.z_fresh = <<>>,
            !.z_file = <<>>,
            !.resid0 = <<>>,
            !.steps = <<>>,
            \* the summary of the call before: its arguments and what it returned
            \* if it returned, its contributions to cache_kvs if it raised
            !.prev = IF hist.ncalls = 0 THEN NoCall
                     ELSE IF pc = "raised"
                     THEN [NoCall EXCEPT !.outcome = pc, !.pre_kvs = hist.pre_kvs,
                                         !.steps = hist.steps]
                     ELSE [requests |-> hist.arg_requests, layers |-> layers,
                           cache_template |-> cache_template,
                           pre_w |-> hist.pre_w, pre_disk |-> hist.pre_disk,
                           pre_ctc |-> hist.pre_ctc, pre_kvs |-> hist.pre_kvs,
                           outcome |-> "returned",
                           deltas |-> deltas, steps |-> hist.steps]]
    /\ UNCHANGED <<model_w, cache_kvs, CONTEXT_TEMPLATES_CACHE, disk>>

Normalize ==
    /\ pc = "normalize"
    /\ UNCHANGED ret
    /\ idx <= Len(requests)
    /\ LET n == normalize_request(requests[idx])
       IN  IF n.error # "none"
           THEN /\ Raise(n.error)
                /\ UNCHANGED <<requests, idx>>
           ELSE /\ requests' = [requests EXCEPT ![idx] = n.request]
                /\ idx' = idx + 1
                /\ UNCHANGED <<pc, error>>
    /\ UNCHANGED <<model_w, cache_kvs, CONTEXT_TEMPLATES_CACHE, disk, layers,
                   cache_template, weights, weights_copy, context_templates, z_list,
                   prob_list, targets, i, deltas, hist>>

PrintSamples ==
    /\ pc = "normalize"
    /\ UNCHANGED ret
    /\ idx > Len(requests)
    /\ IF \E k \in 1..Min(SampleLimit, Len(requests)) : ~format_ok(requests[k])
       THEN Raise("IndexError")
       ELSE /\ pc' = "snapshot"
            /\ UNCHANGED error
    /\ UNCHANGED <<model_w, cache_kvs, CONTEXT_TEMPLATES_CACHE, disk, requests, layers,
                   cache_template, idx, weights, weights_copy, context_templates,
                   z_list, prob_list, targets, i, deltas, hist>>

-----------------------------------------------------------------------------
(* lines 116-124: the targeted parameters and their snapshot *)

RangeOf(seq) == {seq[k] : k \in 1..Len(seq)}

\* keys of the dict comprehension of lines 117-122
weight_names(ls) == {WeightName(l) : l \in RangeOf(ls)}

\* weights_copy = {k: v.detach().clone() for k, v in weights.items()}
snapshot(w, names) == [k \in names |-> w[k]]

Snapshot ==
    /\ pc = "snapshot"
    /\ UNCHANGED ret
    /\ weights' = weight_names(layers)
    /\ weights_copy' = snapshot(model_w, weight_names(layers))
    /\ hist' = [hist EXCEPT !.touched = TRUE]
    /\ pc' = "templates"
    /\ UNCHANGED <<error, model_w, cache_kvs, CONTEXT_TEMPLATES_CACHE, disk, requests,
                   layers, cache_template, idx, context_templates, z_list, prob_list,
                   targets, i, deltas>>

-----------------------------------------------------------------------------
(* get_context_templates *)

\* a get_context_templates that generates on every call
get_context_templates_regenerating(w, cache) ==
    [cache |-> generate_fast(w), generated |-> 1]

\* the value of CONTEXT_TEMPLATES_CACHE after the call (which is the value
\* returned), and how often generate_fast ran
get_context_templates(w, cache) ==
    IF cache = "None"
    THEN [cache |-> generate_fast(w), generated |-> 1]
    ELSE [cache |-> cache, generated |-> 0]

\* line 127
GetContextTemplatesStep ==
    /\ pc = "templates"
    /\ UNCHANGED ret
    /\ LET g == get_context_templates(model_w, CONTEXT_TEMPLATES_CACHE)
       IN  /\ CONTEXT_TEMPLATES_CACHE' = g.cache
           /\ context_templates' = g.cache
           /\ hist' = [hist EXCEPT !.gen_calls = @ + g.generated]
    /\ pc' = "z"
    /\ idx' = 1
    /\ UNCHANGED <<error, model_w, cache_kvs, disk, requests, layers, cache_template,
                   weights, weights_copy, z_list, prob_list, targets, i, deltas>>

\* get_context_templates called by other code of the process between two edits
GetContextTemplatesCall ==
    /\ Finished
    /\ UNCHANGED ret
    /\ hist.ncalls < MaxCalls
    /\ LET g == get_context_templates(model_w, CONTEXT_TEMPLATES_CACHE)
       IN  /\ CONTEXT_TEMPLATES_CACHE' = g.cache
           /\ hist' = [hist EXCEPT !.gen_calls = @ + g.generated]
    /\ UNCHANGED <<pc, error, model_w, cache_kvs, disk, requests, layers,
                   cache_template, idx, weights, weights_copy, context_templates,
                   z_list, prob_list, targets, i, deltas>>

-----------------------------------------------------------------------------
(* lines 126-176: the target vector of every request *)

\* z_layer = hparams.layers[-1]
z_layer_of(ls) == ls[Len(ls)]

\* a cache read that takes whatever an existing file holds
target_vector_trusting(w, request, ls, ct, file) ==
    LET z == compute_z(w, request, z_layer_of(ls))
    IN  IF ct /\ file.kind # "missing"
        THEN [z |-> file.v_star, fresh |-> FALSE, prob |-> 0, file |-> file]
        ELSE [z |-> z.cur_z, fresh |-> TRUE, prob |-> z.prob,
              file |-> IF ct THEN FileOk(z.cur_z) ELSE file]

\* a cache read that still runs compute_z for its diagnostics on a hit
target_vector_probing(w, request, ls, ct, file) ==
    LET z == compute_z(w, request, z_layer_of(ls))
    IN  IF ct /\ file.kind = "ok"
        THEN [z |-> file.v_star, fresh |-> TRUE, prob |-> z.prob, file |-> file]
        ELSE [z |-> z.cur_z, fresh |-> TRUE, prob |-> z.prob,
              file |-> IF ct THEN FileOk(z.cur_z) ELSE file]

\* lines 133-175 for one request: the vector appended to z_list, whether
\* compute_z ran (and its prob), and the cache file afterwards
target_vector(w, request, ls, ct, file) ==
    LET exists == ct /\ file.kind # "missing"        \* lines 143-146
        \* np.load raises on a corrupted archive, data["v_star"] on a missing array
        data_loaded == exists /\ file.kind = "ok"
        z == compute_z(w, request, z_layer_of(ls))
    IN  IF data_loaded
        THEN [z |-> file.v_star, fresh |-> FALSE, prob |-> 0, file |-> file]
        ELSE [z |-> z.cur_z, fresh |-> TRUE, prob |-> z.prob,
              file |-> IF ct THEN FileOk(z.cur_z) ELSE file]

ComputeZ ==
    /\ pc = "z"
    /\ UNCHANGED ret
    /\ idx <= Len(requests)
    /\ LET request == requests[idx]
           t == target_vector(model_w, request, layers, cache_template,
                              disk[request.case_id])
       IN  /\ z_list' = Append(z_list, t.z)
           /\ prob_list' = IF t.fresh THEN Append(prob_list, t.prob) ELSE prob_list
           /\ disk' = [disk EXCEPT ![request.case_id] = t.file]
           /\ hist' = [hist EXCEPT !.z_fresh = Append(@, t.fresh),
                                   !.z_file = Append(@, disk[request.case_id])]
    /\ idx' = idx + 1
    /\ UNCHANGED <<pc, error, model_w, cache_kvs, CONTEXT_TEMPLATES_CACHE, requests,
                   layers, cache_template, weights, weights_copy, context_templates,
                   targets, i, deltas>>

-----------------------------------------------------------------------------
(* lines 176-190: the residual *)

\* targets = zs - cur_zs
residual(zs, cur_zs) == [q \in 1..Len(zs) |-> zs[q] - cur_zs[q]]

ComputeResidual ==
    /\ pc = "z"
    /\ UNCHANGED ret
    /\ idx > Len(requests)
    /\ targets' = residual(z_list,
                    get_module_input_output_at_words(model_w, requests, z_layer_of(layers)))
    /\ hist' = [hist EXCEPT !.resid0 = targets']
    /\ i' = 0
    /\ pc' = "layer"
    /\ UNCHANGED <<error, model_w, cache_kvs, CONTEXT_TEMPLATES_CACHE, disk, requests,
                   layers, cache_template, idx, weights, weights_copy,
                   context_templates, z_list, prob_list, deltas>>

-----------------------------------------------------------------------------
(* lines 192-256: one iteration of the layer loop *)

RECURSIVE Tiled(_, _)
Tiled(t, n) == IF n = 0 THEN <<>> ELSE t \o Tiled(t, n - 1)

\* a broadcast by targets.repeat(1, n): the whole matrix n times side by side
broadcast_tiled(t, layer_ks) == Tiled(t, Len(layer_ks) \div Len(t))

\* a broadcast by the number of context variants at every layer
broadcast_fixed(t, layer_ks) == repeat_interleave(t, KeyVariants)

\* lines 204-209: targets.repeat_interleave(layer_ks.size(1) // targets.size(1))
broadcast(t, layer_ks) == repeat_interleave(t, Len(layer_ks) \div Len(t))

\* a share that divides by the number of layers at every position
layer_share_even(r, nlayers, pos) == TDiv(r, nlayers)

\* line 235: resid = r / (len(hparams.layers) - i)
layer_share(r, nlayers, pos) == TDiv(r, nlayers - pos)

\* line 234: right + hparams.mom2_update_weight * cov
regularized(right, cov) == TAdd(right, TScale(hparams.mom2_update_weight, cov))

\* an iteration that adds the update to the live weight
edited_weight_stacked(live, copy, upd_matrix) ==
    Tensor(live.shape, live.val + upd_matrix.val)

\* an iteration that records the delta and leaves the live weight alone
edited_weight_unwritten(live, copy, upd_matrix) == live

\* line 247: weights[weight_name][...] = weights_copy[weight_name] + upd_matrix
edited_weight(live, copy, upd_matrix) == Tensor(live.shape, copy.val + upd_matrix.val)

\* record of the contributions added to one accumulator
Logged(log, name, v) ==
    IF name \in DOMAIN log THEN [log EXCEPT ![name] = Append(@, v)]
    ELSE log @@ (name :> <<v>>)

ProcessLayer ==
    /\ pc = "layer"
    /\ UNCHANGED ret
    /\ i < Len(layers)
    /\ LET layer == layers[i + 1]
           weight_name == WeightName(layer)
           layer_ks == compute_ks(model_w, requests, layer)
           new_targets == broadcast(targets, layer_ks)
       IN  IF Len(new_targets) # Len(layer_ks)
           THEN \* targets @ layer_ks.T : the column counts differ
                /\ Raise("RuntimeError")
                /\ targets' = new_targets
                /\ UNCHANGED <<model_w, cache_kvs, deltas, i, hist>>
           ELSE
           LET r_cache == Tensor(<<Dims.hidden, Dims.key>>, Dot(new_targets, layer_ks))
               kvs1 == upd_cache(cache_kvs, <<weight_name, "r_cache">>, r_cache)
               cov == get_cov(layer)
               right_cache == Tensor(<<Dims.key, Dims.key>>, Dot(layer_ks, layer_ks))
               kvs2 == upd_cache(kvs1, <<weight_name, "right_cache">>, right_cache)
               r == get_cache(kvs2, <<weight_name, "r_cache">>)
               right == regularized(get_cache(kvs2, <<weight_name, "right_cache">>), cov)
               resid == layer_share(r, Len(layers), i)
               solved == solve(right, resid)
               m == upd_matrix_match_shape(solved, model_w[weight_name].shape)
               seen == [hist EXCEPT
                    !.steps = Append(@, [layer |-> layer, ks_model |-> model_w,
                                         targets |-> new_targets, r |-> r_cache.val,
                                         right |-> right_cache.val, solved |-> solved,
                                         ok |-> m.ok, upd_matrix |-> m.matrix,
                                         repeat_factor |-> Len(layer_ks) \div Len(targets),
                                         key_columns |-> Len(layer_ks),
                                         r_read |-> r.val,
                                         right_read |-> get_cache(kvs2,
                                                <<weight_name, "right_cache">>).val]),
                    !.contrib = Logged(Logged(@, <<weight_name, "r_cache">>, r_cache.val),
                                       <<weight_name, "right_cache">>, right_cache.val)]
           IN  /\ targets' = new_targets
               /\ cache_kvs' = kvs2
               /\ hist' = seen
               /\ IF ~m.ok
                  THEN /\ Raise("ValueError")
                       /\ UNCHANGED <<model_w, deltas, i>>
                  ELSE /\ model_w' = [model_w EXCEPT ![weight_name] =
                              edited_weight(@, weights_copy[weight_name], m.matrix)]
                       /\ deltas' = IF weight_name \in DOMAIN deltas
                                    THEN [deltas EXCEPT ![weight_name] = m.matrix]
                                    ELSE deltas @@ (weight_name :> m.matrix)
                       /\ i' = i + 1
                       /\ UNCHANGED <<pc, error>>
    /\ UNCHANGED <<CONTEXT_TEMPLATES_CACHE, disk, requests, layers, cache_template, idx,
                   weights, weights_copy, context_templates, z_list, prob_list>>

-----------------------------------------------------------------------------
(* lines 258-265: restoration and return *)

\* a restoration loop that writes nothing back
restored_nothing(w, names, copy) == w

\* for k, v in weights.items(): v[...] = weights_copy[k]
restored(w, names, copy) ==
    [l \in DOMAIN w |-> IF l \in names THEN Tensor(w[l].shape, copy[l].val) ELSE w[l]]

Restore ==
    /\ pc = "layer"
    /\ UNCHANGED ret
    /\ i = Len(layers)
    /\ model_w' = restored(model_w, weights, weights_copy)
    /\ pc' = "returned"
    /\ UNCHANGED <<error, cache_kvs, CONTEXT_TEMPLATES_CACHE, disk, requests, layers,
                   cache_template, idx, weights, weights_copy, context_templates,
                   z_list, prob_list, targets, i, deltas, hist>>

\* apply_memit_to_model, after its call of execute_memit has returned:
\*   for w_name, upd_matrix in deltas.items():
\*       upd_matrix = upd_matrix_match_shape(upd_matrix, w.shape)
\*       w[...] += upd_matrix
applied_deltas(w, ds) ==
    [l \in DOMAIN w |->
        IF l \in DOMAIN ds
        THEN Tensor(w[l].shape,
                    w[l].val + upd_matrix_match_shape(ds[l], w[l].shape).matrix.val)
        ELSE w[l]]

\* delta_nom[w_name] = torch.norm(upd_matrix, p=1) / upd_matrix.numel()
delta_norms(ds) ==
    [n \in DOMAIN ds |-> IF ds[n].val < 0 THEN 0 - ds[n].val ELSE ds[n].val]

\* weights_copy = {}
\* if return_orig_weights and w_name not in weights_copy:
\*     weights_copy[w_name] = w.detach().clone()      (before the delta is added)
\* if not keep_original_weight: weights_copy = {}
original_weights(w, ds, return_orig_weights, keep_original_weight) ==
    IF ~keep_original_weight THEN NoTensors
    ELSE IF return_orig_weights THEN [n \in DOMAIN ds |-> w[n]]
    ELSE NoTensors

\* The deltas come from execute_memit already in the parameter's shape, and the
\* model edited by execute_memit is the deep copy when copy is set, so the flags
\* are first read here.  With copy the caller's model keeps its weights and the
\* returned model is the edited copy.
apply_memit_to_model(copy, return_orig_weights, keep_original_weight) ==
    /\ pc = "returned"
    /\ LET fits == \A n \in DOMAIN deltas :
                      upd_matrix_match_shape(deltas[n], model_w[n].shape).ok
           edited == applied_deltas(model_w, deltas)
       IN /\ pc' = IF fits THEN "applied" ELSE "raised"
          /\ error' = IF fits THEN error ELSE "ValueError"
          /\ model_w' = IF fits /\ ~copy THEN edited ELSE model_w
          /\ ret' = IF fits
                    THEN [called |-> TRUE, copy |-> copy,
                          return_orig_weights |-> return_orig_weights,
                          keep_original_weight |-> keep_original_weight,
                          model |-> edited,
                          weights_copy |-> original_weights(model_w, deltas,
                                              return_orig_weights, keep_original_weight),
                          delta_nom |-> delta_norms(deltas),
                          prob_list |-> prob_list]
                    ELSE NoReturn
    /\ UNCHANGED <<cache_kvs, CONTEXT_TEMPLATES_CACHE, disk, requests, layers,
                   cache_template, idx, weights, weights_copy, context_templates,
                   z_list, prob_list, targets, i, deltas, hist>>

-----------------------------------------------------------------------------

Next ==
    \/ \E reqs \in Batches, ls \in LayerLists, ct \in BOOLEAN : Call(reqs, ls, ct)
    \/ Normalize
    \/ PrintSamples
    \/ Snapshot
    \/ GetContextTemplatesStep
    \/ GetContextTemplatesCall
    \/ ComputeZ
    \/ ComputeResidual
    \/ ProcessLayer
    \/ Restore
    \/ \E copy \in BOOLEAN, return_orig_weights \in BOOLEAN, keep_original_weight \in BOOLEAN :
          apply_memit_to_model(copy, return_orig_weights, keep_original_weight)

Spec == Init /\ [][Next]_vars

-----------------------------------------------------------------------------
(* Properties *)

Returned == pc = "returned"
Raised == pc = "raised"

\* the parameters hparams.layers targets
Targeted == weight_names(layers)

\* every targeted parameter holds the value it held when the call started
WeightsAsBefore == \A n \in Targeted : model_w[n] = hist.pre_w[n]

\* C1: when execute_memit returns normally every targeted parameter holds
\* exactly its pre-call value, and the returned deltas mapping has one entry
\* per targeted parameter (so it is not empty)
C1_RestoredOnReturn ==
    Returned => /\ WeightsAsBefore
                /\ DOMAIN deltas = Targeted
                /\ deltas # NoTensors

\* a normal return of a two-layer call whose updates were not zero, in a
\* process whose earlier call left the weights changed
C1_Witness ==
    /\ Returned
    /\ Len(layers) = 2
    /\ \A p \in 1..Len(hist.steps) : hist.steps[p].upd_matrix.val # 0
    /\ hist.prev.outcome = "raised"
    /\ hist.pre_w # LoadedModel

\* C2: when execute_memit aborts with an error every targeted parameter
\* holds its pre-call value: no partial application is retained
C2_RestoredOnError == Raised => WeightsAsBefore

\* sum of the contributions logged for one accumulator
Contributed(name) == SumSeq(hist.contrib[name])

\* C3: each accumulator of cache_kvs equals the sum of all contributions ever
\* added to it, over all calls: none is reset, overwritten or removed, and
\* the covariance prior is not part of it
C3_Accumulated ==
    /\ DOMAIN cache_kvs = DOMAIN hist.contrib
    /\ \A name \in DOMAIN cache_kvs : cache_kvs[name].val = Contributed(name)

\* two calls that returned and both targeted one parameter
C3_Witness ==
    /\ Returned
    /\ hist.prev.outcome = "returned"
    /\ \E n \in Targeted :
          /\ n \in DOMAIN hist.prev.deltas
          /\ Len(hist.contrib[<<n, "right_cache">>]) >= 2
          /\ cache_kvs[<<n, "r_cache">>].val >
                hist.contrib[<<n, "r_cache">>][Len(hist.contrib[<<n, "r_cache">>])]

\* the call that just returned repeats the previous one: same requests and
\* hyperparameters, same model weights, same template cache and same cache
\* files before each of the two runs, and both returned
SameRunTwice ==
    /\ Returned
    /\ hist.prev.outcome = "returned"
    /\ hist.arg_requests = hist.prev.requests
    /\ layers = hist.prev.layers
    /\ cache_template = hist.prev.cache_template
    /\ hist.pre_w = hist.prev.pre_w
    /\ hist.pre_ctc = hist.prev.pre_ctc
    /\ hist.pre_ctc # "None"
    /\ hist.pre_disk = hist.prev.pre_disk

\* C4 as stated: two identical runs in one process return equal deltas
C4_EqualDeltas == SameRunTwice => deltas = hist.prev.deltas

\* value of an accumulator in a snapshot of cache_kvs (0 while it has no entry)
Held(kvs, name) == IF name \in DOMAIN kvs THEN kvs[name].val ELSE 0

\* what the call before the current one added to an accumulator
PrevAdded(layer, role) ==
    SumSeq([p \in 1..Len(hist.prev.steps) |->
              IF hist.prev.steps[p].layer # layer THEN 0
              ELSE IF role = "r_cache" THEN hist.prev.steps[p].r
                   ELSE hist.prev.steps[p].right])

\* C4 (amended): two identical runs return deltas for the same parameters
\* with the same shapes and add the same cross-term and Gram-term at the
\* first layer position; the second run starts from accumulators that hold
\* the first run's contributions and solves against them plus its own
C4_SecondRunSolvesAccumulated ==
    SameRunTwice =>
        LET layer == layers[1]
            n == WeightName(layer)
            s == hist.steps[1]
            pre_r == Held(hist.pre_kvs, <<n, "r_cache">>)
            pre_right == Held(hist.pre_kvs, <<n, "right_cache">>)
        IN  /\ DOMAIN deltas = DOMAIN hist.prev.deltas
            /\ \A k \in DOMAIN deltas : deltas[k].shape = hist.prev.deltas[k].shape
            /\ s.r = hist.prev.steps[1].r
            /\ s.right = hist.prev.steps[1].right
            /\ pre_r = Held(hist.prev.pre_kvs, <<n, "r_cache">>) + PrevAdded(layer, "r_cache")
            /\ pre_right = Held(hist.prev.pre_kvs, <<n, "right_cache">>)
                              + PrevAdded(layer, "right_cache")
            /\ s.solved.val =
                  ((pre_r + s.r) \div Len(layers))
                     \div (pre_right + s.right
                             + hparams.mom2_update_weight * get_cov(layer).val)

\* two identical runs whose deltas differ
C4_Witness ==
    /\ SameRunTwice
    /\ deltas # hist.prev.deltas
    /\ hist.steps[1].r > 0

\* C5: layers are processed in the order of hparams.layers, and the keys of
\* position p are computed on the model as the iteration of position p-1
\* left it: the parameter of position p-1 holds snapshot + update
C5_KeysOnEditedModel ==
    /\ \A p \in 1..Len(hist.steps) : hist.steps[p].layer = layers[p]
    /\ Len(hist.steps) >= 1 => hist.steps[1].ks_model = hist.pre_w
    /\ \A p \in 2..Len(hist.steps) :
          LET n == WeightName(layers[p - 1])
          IN  hist.steps[p].ks_model[n].val
                 = weights_copy[n].val + hist.steps[p - 1].upd_matrix.val

\* the keys of the second position differ from the keys the pre-call model gives
C5_Witness ==
    /\ Len(hist.steps) = 2
    /\ layers = <<1, 2>>
    /\ hist.steps[1].upd_matrix.val # 0
    /\ compute_ks(hist.steps[2].ks_model, requests, 2) # compute_ks(hist.pre_w, requests, 2)

\* no '{}' in the prompt and the subject not in the prompt
AbsentSubject(request) ==
    /\ ~Contains(request.prompt, Placeholder)
    /\ ~Contains(request.prompt, request.subject)

\* C6: a call whose batch holds, at any position, a non-templated prompt
\* without the subject never gets past the normalisation loop: it fails with
\* no weight read, snapshotted or written
C6_FailsBeforeWeights ==
    (hist.ncalls > 0 /\ \E k \in 1..Len(hist.arg_requests) : AbsentSubject(hist.arg_requests[k]))
        => /\ pc \in {"normalize", "raised"}
           /\ pc = "raised" => error = "AssertionError"
           /\ ~hist.touched
           /\ weights = {}
           /\ weights_copy = NoTensors
           /\ model_w = hist.pre_w

\* the call failed on the second request of the batch
C6_Witness ==
    /\ Raised
    /\ error = "AssertionError"
    /\ idx = 2
    /\ AbsentSubject(hist.arg_requests[2])

\* C7: upd_matrix_match_shape returns the solved matrix unchanged when its
\* shape is the parameter's, its transpose when only the transposed shape
\* is, and raises otherwise; every delta has its parameter's native shape
C7_NativeShape ==
    /\ \A n \in DOMAIN deltas : deltas[n].shape = model_w[n].shape
    /\ \A p \in 1..Len(hist.steps) :
          LET s == hist.steps[p]
              shape == model_w[WeightName(s.layer)].shape
          IN  /\ s.solved.shape = shape => s.ok /\ s.upd_matrix = s.solved
              /\ (s.solved.shape # shape /\ Transpose(s.solved).shape = shape)
                    => s.ok /\ s.upd_matrix = Transpose(s.solved)
              /\ (s.solved.shape # shape /\ Transpose(s.solved).shape # shape)
                    => ~s.ok /\ Raised /\ error = "ValueError" /\ p = Len(hist.steps)

\* a returned mapping with one delta passed through and one transposed
C7_Witness ==
    /\ Returned
    /\ \E p, q \in 1..Len(hist.steps) :
          /\ hist.steps[p].upd_matrix = hist.steps[p].solved
          /\ hist.steps[q].upd_matrix.shape # hist.steps[q].solved.shape
          /\ deltas[WeightName(hist.steps[q].layer)].shape # hist.steps[q].solved.shape

\* C8: with a cache path template, a request whose cache file is missing,
\* unreadable or lacks v_star gets a fresh compute_z vector, which is written
\* to the file and used; a readable file's vector is used without compute_z;
\* the call does not fail in this stage
C8_CacheResilience ==
    \A k \in 1..Len(hist.z_file) :
        LET file == hist.z_file[k]
            fresh == compute_z(hist.pre_w, requests[k], z_layer_of(layers))
        IN  /\ cache_template =>
                /\ hist.z_fresh[k] <=> file.kind # "ok"
                /\ file.kind = "ok" => z_list[k] = file.v_star
                /\ file.kind # "ok" => z_list[k] = fresh.cur_z
                /\ disk[requests[k].case_id] = FileOk(z_list[k])
            /\ ~cache_template => hist.z_fresh[k] /\ z_list[k] = fresh.cur_z
            /\ Raised => error = "ValueError"

\* one request served from its file, one recomputed over a file without v_star
C8_Witness ==
    /\ Returned
    /\ cache_template
    /\ \E j, k \in 1..Len(hist.z_file) :
          /\ hist.z_file[j].kind = "ok" /\ ~hist.z_fresh[j]
          /\ z_list[j] # compute_z(hist.pre_w, requests[j], z_layer_of(layers)).cur_z
          /\ hist.z_file[k].kind = "nokey" /\ hist.z_fresh[k]

\* C9: every request that passed the normalisation loop has exactly one '{}'
\* in its prompt and a target_new that begins with a space
C9_OnePlaceholder ==
    pc = "normalize" =>
        \A k \in 1..(idx - 1) :
            /\ NumPlaceholders(requests[k].prompt) = 1
            /\ requests[k].target_new[1] = Space

\* the request whose column c of a broadcast residual belongs to
RequestOfColumn(t, c) == ((c - 1) \div (Len(t) \div Len(hist.resid0))) + 1

\* the undivided residual of request q that position p multiplied with its keys
UndividedAt(p, q) ==
    LET t == hist.steps[p].targets
    IN  t[(q - 1) * (Len(t) \div Len(hist.resid0)) + 1]

\* C10 as stated: summed over the layers, the undivided residuals the layers
\* used give the original residual of each request
C10_ResidualConserved ==
    Returned =>
        \A q \in 1..Len(hist.resid0) :
            SumSeq([p \in 1..Len(hist.steps) |-> UndividedAt(p, q)]) = hist.resid0[q]

\* C10 (amended): every layer uses the original residual, undivided and
\* unreduced, in every column of the request; summed over L layers that is
\* L times the original residual
C10_ResidualReused ==
    /\ \A p \in 1..Len(hist.steps) :
          LET t == hist.steps[p].targets
          IN  \A c \in 1..Len(t) : t[c] = hist.resid0[RequestOfColumn(t, c)]
    /\ Returned =>
          \A q \in 1..Len(hist.resid0) :
              SumSeq([p \in 1..Len(hist.steps) |-> UndividedAt(p, q)])
                 = Len(layers) * hist.resid0[q]

\* a two-layer call over two requests with different, non-zero residuals
C10_Witness ==
    /\ Returned
    /\ Len(layers) = 2
    /\ Len(hist.resid0) = 2
    /\ hist.resid0[1] # hist.resid0[2]
    /\ \A q \in 1..2 : hist.resid0[q] # 0

Applied == pc = "applied"

\* writing a mapping of saved weights back into a model
written_back(w, saved) ==
    [l \in DOMAIN w |-> IF l \in DOMAIN saved THEN saved[l] ELSE w[l]]

\* C11: with return_orig_weights the second result of apply_memit_to_model holds,
\* for every parameter of the delta mapping, the value the parameter had before
\* its delta was added, and writing it back into the returned model undoes the
\* edit; without return_orig_weights the mapping is empty
C11_OriginalsReturned ==
    Applied =>
        IF ret.return_orig_weights
        THEN /\ DOMAIN ret.weights_copy = DOMAIN deltas
             /\ \A n \in DOMAIN deltas : ret.weights_copy[n] = hist.pre_w[n]
             /\ written_back(ret.model, ret.weights_copy) = hist.pre_w
        ELSE ret.weights_copy = NoTensors

\* C12: over all get_context_templates calls of the process, whatever the
\* model's weights at the call, generate_fast runs at most once, on the first
\* call; the cache then keeps the set generated then, and every later call
\* returns that set
C12_GeneratedOnce ==
    /\ hist.gen_calls <= 1
    /\ (hist.gen_calls = 0) <=> (CONTEXT_TEMPLATES_CACHE = "None")
    /\ CONTEXT_TEMPLATES_CACHE # "None" =>
          CONTEXT_TEMPLATES_CACHE = generate_fast(LoadedModel)
    /\ pc \in {"z", "layer", "returned", "applied"} =>
          context_templates = CONTEXT_TEMPLATES_CACHE

\* a second edit got its templates from the cache, on a model whose weights
\* are no longer those the templates were generated from
C12_Witness ==
    /\ hist.ncalls = 2
    /\ pc = "z"
    /\ hist.pre_ctc # "None"
    /\ model_w # LoadedModel
    /\ context_templates = generate_fast(LoadedModel)

\* what the steps 1..p of the current call added to the accumulator that
\* step p added to
OwnAdded(p, role) ==
    SumSeq([q \in 1..p |->
              IF hist.steps[q].layer # hist.steps[p].layer THEN 0
              ELSE IF role = "r_cache" THEN hist.steps[q].r
                   ELSE hist.steps[q].right])

\* C13: at every layer position the cross-term added to the accumulator is
\* the residual computed before the loop, undivided, times the keys of that
\* layer; the solve's right-hand side is the accumulator read back (what it
\* held before the call, with the contributions of the call before, plus what
\* this call added so far) divided by (L - i)
C13_UndividedIncrement ==
    \A p \in 1..Len(hist.steps) :
        LET s == hist.steps[p]
            n == WeightName(s.layer)
            layer_ks == compute_ks(s.ks_model, requests, s.layer)
            pre_r == Held(hist.pre_kvs, <<n, "r_cache">>)
        IN  /\ s.r = Dot(repeat_interleave(hist.resid0,
                                           Len(layer_ks) \div Len(hist.resid0)),
                         layer_ks)
            /\ s.r_read = pre_r + OwnAdded(p, "r_cache")
            /\ hist.prev.outcome # "none" =>
                  pre_r = Held(hist.prev.pre_kvs, <<n, "r_cache">>)
                             + PrevAdded(s.layer, "r_cache")
            /\ s.solved.val =
                  (s.r_read \div (Len(layers) - (p - 1)))
                     \div (s.right_read + hparams.mom2_update_weight * get_cov(s.layer).val)

\* the second position of a two-layer call, on a parameter whose accumulator
\* held an earlier call's cross-term, where dividing by the number of layers
\* would give another update
C13_Witness ==
    /\ Len(layers) = 2
    /\ Len(hist.steps) = 2
    /\ LET s == hist.steps[2]
       IN  /\ Held(hist.pre_kvs, <<WeightName(s.layer), "r_cache">>) # 0
           /\ s.r # 0
           /\ hist.steps[1].r # 0
           /\ s.solved.val # (s.r_read \div 2)
                 \div (s.right_read + hparams.mom2_update_weight * get_cov(s.layer).val)

\* between the snapshot and the restoration loop
Editing == pc \in {"templates", "z", "layer"}

\* C14: between snapshot and restoration every targeted parameter holds its
\* snapshot value, which is its value at the start of the call, if no update
\* was computed for it yet, and snapshot + the update computed last for it
\* otherwise; also when a layer occurs more than once in hparams.layers
C14_NeverStacked ==
    Editing =>
        \A n \in weights :
            /\ weights_copy[n] = hist.pre_w[n]
            /\ model_w[n] =
                  IF n \in DOMAIN deltas
                  THEN Tensor(weights_copy[n].shape, weights_copy[n].val + deltas[n].val)
                  ELSE weights_copy[n]
            /\ n \in DOMAIN deltas =>
                  \E p \in 1..Len(hist.steps) :
                      /\ WeightName(hist.steps[p].layer) = n
                      /\ hist.steps[p].upd_matrix = deltas[n]
                      /\ \A q \in (p + 1)..Len(hist.steps) :
                            WeightName(hist.steps[q].layer) # n

\* the same layer processed twice, with two non-zero updates
C14_Witness ==
    /\ pc = "layer"
    /\ i = 2
    /\ layers[1] = layers[2]
    /\ hist.steps[1].upd_matrix.val # 0
    /\ hist.steps[2].upd_matrix.val # 0
    /\ model_w[WeightName(layers[1])].val =
          weights_copy[WeightName(layers[1])].val + hist.steps[2].upd_matrix.val

\* every layer of the call so far yielded the same number of key columns, a
\* multiple of the number of requests
SameKeyColumns ==
    \A p \in 1..Len(hist.steps) :
        /\ hist.steps[p].key_columns = hist.steps[1].key_columns
        /\ hist.steps[p].key_columns % Len(requests) = 0

\* C15: when every layer yields the same number of key columns, a multiple of
\* the request count, the residual is broadcast by key columns / requests at
\* the first layer position and by 1 at every later one, the residual and the
\* keys multiplied together have the same number of columns at every layer,
\* and the product never fails
C15_BroadcastOnce ==
    SameKeyColumns =>
        /\ error # "RuntimeError"
        /\ \A p \in 1..Len(hist.steps) :
              LET s == hist.steps[p]
              IN  /\ s.repeat_factor =
                        IF p = 1 THEN s.key_columns \div Len(hist.resid0) ELSE 1
                  /\ Len(s.targets) = s.key_columns
                  /\ Len(s.targets) = Len(compute_ks(s.ks_model, requests, s.layer))

\* two layers processed over two requests, the first with a broadcast by
\* more than 1
C15_Witness ==
    /\ Len(hist.steps) = 2
    /\ Len(hist.resid0) = 2
    /\ hist.steps[1].repeat_factor > 1
    /\ hist.steps[2].repeat_factor = 1
    /\ Len(hist.steps[2].targets) = hist.steps[2].key_columns

\* the target vector of request k of the current call was loaded from its
\* cache file: a template was given and the file, as it was when the request
\* was reached, held a readable v_star
CacheHit(k) == cache_template /\ hist.z_file[k].kind = "ok"

\* the requests handled so far whose target vector was not loaded
FreshRequests ==
    SelectSeq([k \in 1..Len(hist.z_file) |-> k], LAMBDA k : ~CacheHit(k))

\* C16: prob_list holds, in request order, the prob compute_z returned for
\* each request whose target vector was computed, and nothing for a request
\* whose target vector was loaded; in what execute_memit returns it is as
\* long as the request list exactly when no request was loaded
C16_ProbPerFreshRequest ==
    /\ Len(hist.z_fresh) = Len(hist.z_file)
    /\ \A k \in 1..Len(hist.z_file) : hist.z_fresh[k] = ~CacheHit(k)
    /\ prob_list = [j \in 1..Len(FreshRequests) |->
                      compute_z(hist.pre_w, requests[FreshRequests[j]],
                                z_layer_of(layers)).prob]
    /\ Returned =>
          /\ Len(hist.z_file) = Len(requests)
          /\ (Len(prob_list) = Len(requests))
                <=> (\A k \in 1..Len(requests) : ~CacheHit(k))

\* a call over two requests returned, one target vector loaded and one computed
C16_Witness ==
    /\ Returned
    /\ Len(requests) = 2
    /\ \E k \in 1..2 : CacheHit(k)
    /\ \E k \in 1..2 : ~CacheHit(k)
    /\ Len(prob_list) = 1

\* what the logged steps of a call added to an accumulator
StepsAdded(steps, layer, role) ==
    SumSeq([p \in 1..Len(steps) |->
              IF steps[p].layer # layer THEN 0
              ELSE IF role = "r_cache" THEN steps[p].r ELSE steps[p].right])

\* the call before the current one aborted on a shape mismatch
FailedBefore ==
    /\ hist.prev.outcome = "raised"
    /\ Len(hist.prev.steps) > 0
    /\ ~hist.prev.steps[Len(hist.prev.steps)].ok

\* C17: when the call aborts on a shape mismatch at position i, positions
\* 0..i have been processed and no other, and every accumulator holds what it
\* held before the call plus the cross-terms and Gram-terms of positions 0..i;
\* a call that follows an aborted one reads accumulators that still hold the
\* aborted call's terms, and solves with them
C17_FailedCallContributes ==
    /\ (Raised /\ error = "ValueError") =>
          /\ Len(hist.steps) = i + 1
          /\ \A p \in 1..i : hist.steps[p].ok
          /\ ~hist.steps[i + 1].ok
          /\ \A p \in 1..(i + 1) : hist.steps[p].layer = layers[p]
          /\ \A l \in Layers : \A role \in {"r_cache", "right_cache"} :
                Held(cache_kvs, <<WeightName(l), role>>) =
                    Held(hist.pre_kvs, <<WeightName(l), role>>)
                       + StepsAdded(hist.steps, l, role)
    /\ FailedBefore =>
          \A p \in 1..Len(hist.steps) :
              LET s == hist.steps[p]
                  n == WeightName(s.layer)
                  before == SubSeq(hist.steps, 1, p)
                  r == Held(hist.prev.pre_kvs, <<n, "r_cache">>)
                          + StepsAdded(hist.prev.steps, s.layer, "r_cache")
                          + StepsAdded(before, s.layer, "r_cache")
                  right == Held(hist.prev.pre_kvs, <<n, "right_cache">>)
                              + StepsAdded(hist.prev.steps, s.layer, "right_cache")
                              + StepsAdded(before, s.layer, "right_cache")
              IN  /\ s.r_read = r
                  /\ s.right_read = right
                  /\ s.solved.val =
                        (r \div (Len(layers) - (p - 1)))
                           \div (right + hparams.mom2_update_weight * get_cov(s.layer).val)

\* a call aborted at its second position; the next call starts on the
\* parameter of the aborted call's first position, solves with the aborted
\* call's cross-term, and aborts at its second position as well
C17_Witness ==
    /\ FailedBefore
    /\ Len(hist.prev.steps) = 2
    /\ hist.prev.steps[1].r # 0
    /\ Raised
    /\ error = "ValueError"
    /\ i = 1
    /\ hist.steps[1].layer = hist.prev.steps[1].layer
    /\ hist.steps[1].r_read = hist.prev.steps[1].r + hist.steps[1].r

====
